---- MODULE Spec2Model ----
(***************************************************************************)
(* vite-plugin-wp-hmr: the generator buildPhp, the run-time behaviour of   *)
(* the PHP it emits (dev detector, cached reachability probe, injector,    *)
(* policy header) and the plugin lifecycle around it.                      *)
(*                                                                         *)
(* Text is a sequence of tokens (Seq(STRING)).  A run of template text     *)
(* without interpolation is one token, an interpolated value is the token  *)
(* sequence of that value, concatenation is \o and "contains" is a search  *)
(* for a contiguous run of tokens.  Numbers are rendered digit by digit.   *)
(***************************************************************************)
EXTENDS Integers, Sequences, FiniteSets

VARIABLES origin, options, out,
          host, devResult,
          transients, now, serverUp, lastReq,
          phase, pluginOrigin, file, closeListener, httpServer, viteConfig

vars == <<origin, options, out, host, devResult, transients, now, serverUp,
          lastReq, phase, pluginOrigin, file, closeListener, httpServer,
          viteConfig>>

(* ---------------------------- bounds ----------------------------------- *)
MaxPatterns == 2
MaxEvents == 2
MaxHostLen == 4
MaxTime == 3
MaxTtl == 2

(* ---------------------------- text helpers ----------------------------- *)
Digit == <<"0", "1", "2", "3", "4", "5", "6", "7", "8", "9">>

RECURSIVE NumText(_)
NumText(n) ==
  IF n < 10 THEN <<Digit[n + 1]>>
  ELSE NumText(n \div 10) \o <<Digit[(n % 10) + 1]>>

DigitValue(d) == CHOOSE k \in 0..9 : Digit[k + 1] = d

IsDigits(s) == \A i \in 1..Len(s) : \E k \in 1..10 : Digit[k] = s[i]

RECURSIVE ParseInt(_)
ParseInt(s) ==
  IF s = <<>> THEN 0
  ELSE 10 * ParseInt(SubSeq(s, 1, Len(s) - 1)) + DigitValue(s[Len(s)])

RECURSIVE Concat(_)
Concat(ss) == IF ss = <<>> THEN <<>> ELSE Head(ss) \o Concat(Tail(ss))

RECURSIVE Join(_, _)
Join(ss, sep) ==
  IF ss = <<>> THEN <<>>
  ELSE IF Len(ss) = 1 THEN ss[1]
  ELSE ss[1] \o sep \o Join(Tail(ss), sep)

Contains(text, needle) ==
  \E i \in 1..(Len(text) - Len(needle) + 1) :
    SubSeq(text, i, i + Len(needle) - 1) = needle

Occurrences(text, needle) ==
  { i \in 1..(Len(text) - Len(needle) + 1) :
      SubSeq(text, i, i + Len(needle) - 1) = needle }

SeqsUpTo(S, n) == UNION { [1..k -> S] : k \in 0..n }

(* ---------------------------- optional values -------------------------- *)
Some(v) == [set |-> TRUE, v |-> v]
NoSeq == [set |-> FALSE, v |-> <<>>]
NoNum == [set |-> FALSE, v |-> 0]

(* ---------------------------- URL -------------------------------------- *)
(* new URL(origin): the origin text is scheme "://" hostname [":" port].   *)
(* A text without a scheme, or with a port that is not a number of at most *)
(* 65535, makes the constructor throw.  The parser drops a port equal to   *)
(* the default port of a special scheme, so url.port is then empty.        *)
(* protocol is kept without its trailing colon.                            *)
SpecialPort(scheme) ==
  CASE scheme = "http" -> 80
    [] scheme = "https" -> 443
    [] scheme = "ws" -> 80
    [] scheme = "wss" -> 443
    [] scheme = "ftp" -> 21
    [] OTHER -> -1

URL(text) ==
  LET bad == [ok |-> FALSE, protocol |-> "", hostname |-> <<>>, port |-> <<>>]
  IN IF Len(text) < 3 \/ text[2] # "://" THEN bad
     ELSE LET rest == SubSeq(text, 3, Len(text))
              cols == { i \in 1..Len(rest) : rest[i] = ":" }
          IN IF cols = {} THEN
               [ok |-> TRUE, protocol |-> text[1], hostname |-> rest,
                port |-> <<>>]
             ELSE
               LET c == CHOOSE i \in cols : \A j \in cols : i <= j
                   digits == SubSeq(rest, c + 1, Len(rest))
               IN IF ~IsDigits(digits) \/ c = 1 THEN bad
                  ELSE IF digits = <<>> THEN
                    [ok |-> TRUE, protocol |-> text[1],
                     hostname |-> SubSeq(rest, 1, c - 1), port |-> <<>>]
                  ELSE IF ParseInt(digits) > 65535 THEN bad
                  ELSE
                    [ok |-> TRUE, protocol |-> text[1],
                     hostname |-> SubSeq(rest, 1, c - 1),
                     port |-> IF ParseInt(digits) = SpecialPort(text[1])
                              THEN <<>> ELSE NumText(ParseInt(digits))]

(* ---------------------------- buildPhp --------------------------------- *)
DEFAULT_TLDS == << <<"local">>, <<"test">>, <<"dev">> >>

DEFAULT_POLICY ==
  <<"Content-Security-Policy: script-src * blob: 'unsafe-inline' 'unsafe-eval'; worker-src * blob:; connect-src * 'unsafe-inline';">>

Guard(fn) == <<"if ( ! function_exists( '", fn, "' ) ) {">>

ResolvedPort(url) ==
  IF url.port # <<>> THEN url.port
  ELSE IF url.protocol = "https" THEN <<"4", "4", "3">> ELSE <<"8", "0">>

ResolvedTtl(opts) == IF opts.cacheTtl.set THEN opts.cacheTtl.v ELSE 5

AllTlds(opts) ==
  DEFAULT_TLDS \o (IF opts.devPatterns.set THEN opts.devPatterns.v ELSE <<>>)

TldList(allTlds) ==
  Join([i \in 1..Len(allTlds) |-> <<"'">> \o allTlds[i] \o <<"'">>], <<", ">>)

HeaderLines ==
  << <<"<?php">>,
     <<"/**">>,
     <<" * Plugin Name: Vite HMR">>,
     <<" * Description: Injects Vite dev client for live reload. Auto-generated - do not edit.">>,
     <<" */">>,
     <<>> >>

DevLines(tldList) ==
  << Guard("vite_hmr_is_dev"),
     <<"\tfunction vite_hmr_is_dev(): bool {">>,
     <<"\t\t$host = $_SERVER['HTTP_HOST'] ?? '';">>,
     <<"\t\tif ( $host === 'localhost' || $host === '127.0.0.1' ) { return true; }">>,
     <<"\t\tforeach ( [ ">> \o tldList \o <<" ] as $tld ) {">>,
     <<"\t\t\tif ( preg_match( '/\\\\.' . $tld . '$/i', $host ) ) { return true; }">>,
     <<"\t\t}">>,
     <<"\t\treturn false;">>,
     <<"\t}">>,
     <<"}">>,
     <<>> >>

KeyLine(port) == <<"\t\t$key    = 'vite_hmr_">> \o port \o <<"';">>

ConnLine(h, port) ==
  <<"\t\t$conn   = @fsockopen( '">> \o h \o <<"', ">> \o port
    \o <<", $errno, $errstr, 1 );">>

SetLine(cacheTtl) ==
  <<"\t\tset_transient( $key, (int) $result, ">> \o NumText(cacheTtl)
    \o <<" );">>

ProbeLines(h, port, cacheTtl) ==
  << Guard("vite_hmr_is_running"),
     <<"\tfunction vite_hmr_is_running(): bool {">>,
     KeyLine(port),
     <<"\t\t$cached = get_transient( $key );">>,
     <<"\t\tif ( $cached !== false ) { return (bool) $cached; }">>,
     ConnLine(h, port),
     <<"\t\t$result = is_resource( $conn );">>,
     <<"\t\tif ( $result ) { fclose( $conn ); }">>,
     SetLine(cacheTtl),
     <<"\t\treturn $result;">>,
     <<"\t}">>,
     <<"}">>,
     <<>> >>

Echo(s) == <<"\t\techo '">> \o s \o <<"' . \"\\n\";">>

ScriptTag(org) ==
  <<"<script type=\"module\" src=\"">> \o org \o <<"/@vite/client\"></script>">>

ImportStmt(org) ==
  <<"import { createHotContext } from \"">> \o org \o <<"/@vite/client\";">>

HotOn(event) == <<"hot.on(\"">> \o event \o <<"\", () => {">>

ListenerEchoes(event) ==
  << HotOn(event),
     <<"  document.querySelectorAll(\"link[rel=stylesheet]\").forEach(l => {">>,
     <<"    const u = new URL(l.href); u.searchParams.set(\"t\", Date.now()); l.href = u.toString();">>,
     <<"  });">>,
     <<"});">> >>

\* HotEchoes with the listeners pushed in reverse order.
HotEchoes_Reversed(org, opts) ==
  IF opts.cssReloadEvents.set /\ Len(opts.cssReloadEvents.v) > 0 THEN
    << <<"<script type=\"module\">">>,
       ImportStmt(org),
       <<"const hot = createHotContext(\"/wp-hmr\");">> >>
    \o Concat([i \in 1..Len(opts.cssReloadEvents.v) |->
                 ListenerEchoes(opts.cssReloadEvents.v[
                   Len(opts.cssReloadEvents.v) + 1 - i])])
    \o << <<"</script>">> >>
  ELSE <<>>

HotEchoes(org, opts) ==
  IF opts.cssReloadEvents.set /\ Len(opts.cssReloadEvents.v) > 0 THEN
    << <<"<script type=\"module\">">>,
       ImportStmt(org),
       <<"const hot = createHotContext(\"/wp-hmr\");">> >>
    \o Concat([i \in 1..Len(opts.cssReloadEvents.v) |->
                 ListenerEchoes(opts.cssReloadEvents.v[i])])
    \o << <<"</script>">> >>
  ELSE <<>>

InjectEchoes(org, opts) == <<ScriptTag(org)>> \o HotEchoes(org, opts)

InjectLines(org, opts) ==
  << Guard("vite_hmr_inject"),
     <<"\tfunction vite_hmr_inject(): void {">>,
     <<"\t\tif ( ! vite_hmr_is_dev() || ! vite_hmr_is_running() ) { return; }">> >>
  \o [i \in 1..Len(InjectEchoes(org, opts)) |-> Echo(InjectEchoes(org, opts)[i])]
  \o << <<"\t}">>,
        <<"}">>,
        <<"add_action( 'wp_head', 'vite_hmr_inject', 1 );">>,
        <<>> >>

\* Policy that ignores a csp string.
Policy_Default(opts) == DEFAULT_POLICY

Policy(opts) ==
  IF opts.csp.kind = "string" THEN opts.csp.text ELSE DEFAULT_POLICY

HeaderStmt(policy) == <<"\t\theader( \"">> \o policy \o <<"\" );">>

\* CspLines that declares the function without its existence guard.
CspLines_Unguarded(opts) ==
  IF opts.csp.kind # "false" THEN
    << <<"\tfunction vite_hmr_csp(): void {">>,
       <<"\t\tif ( ! vite_hmr_is_dev() ) { return; }">>,
       HeaderStmt(Policy(opts)),
       <<"\t}">>,
       <<"add_action( 'send_headers', 'vite_hmr_csp', 1 );">>,
       <<>> >>
  ELSE <<>>

CspLines(opts) ==
  IF opts.csp.kind # "false" THEN
    << Guard("vite_hmr_csp"),
       <<"\tfunction vite_hmr_csp(): void {">>,
       <<"\t\tif ( ! vite_hmr_is_dev() ) { return; }">>,
       HeaderStmt(Policy(opts)),
       <<"\t}">>,
       <<"}">>,
       <<"add_action( 'send_headers', 'vite_hmr_csp', 1 );">>,
       <<>> >>
  ELSE <<>>

buildPhp(org, opts) ==
  LET url == URL(org) IN
  IF ~url.ok THEN [threw |-> TRUE, php |-> <<>>]
  ELSE
    [threw |-> FALSE,
     php |-> Join(HeaderLines
                  \o DevLines(TldList(AllTlds(opts)))
                  \o ProbeLines(url.hostname, ResolvedPort(url), ResolvedTtl(opts))
                  \o InjectLines(org, opts)
                  \o CspLines(opts),
                  <<"\n">>)]

(* ---------------------------- inputs ----------------------------------- *)
NoPort == 0 - 1

MkOrigin(scheme, h, p) ==
  <<scheme, "://", h>> \o (IF p = NoPort THEN <<>> ELSE <<":">> \o NumText(p))

GenSchemes == {"http", "https", "wss"}
GenHosts == {"localhost", "mysite.local"}
GenPorts == {NoPort, 443, 5173}

MalformedOrigins == { <<"not a url">>, <<"http", "://", "localhost", ":", "9", "9", "9", "9", "9">> }

ValidOrigins == { MkOrigin(s, h, p) : s \in GenSchemes, h \in GenHosts, p \in GenPorts }

PatternNames == { <<"ddev">>, <<"local">> }
EventNames == { <<"evt1">>, <<"wp:css-update">> }
CustomPolicies == { <<"Content-Security-Policy: script-src 'self';">>, <<"X-Policy: none">> }

CspChoices ==
  { [kind |-> k, text |-> <<>>] : k \in {"false", "true", "absent"} }
  \cup { [kind |-> "string", text |-> t] : t \in CustomPolicies }

OptSeqs(S, n) == {NoSeq} \cup { Some(v) : v \in SeqsUpTo(S, n) }

IdleOptions ==
  [devPatterns |-> NoSeq, cssReloadEvents |-> NoSeq,
   csp |-> [kind |-> "absent", text |-> <<>>], cacheTtl |-> NoNum,
   cleanup |-> "absent", fileName |-> "absent", origin |-> <<>>]

NotBuilt == [built |-> FALSE, threw |-> FALSE, php |-> <<>>]
NoReq == [hook |-> "none", host |-> <<>>, probed |-> FALSE, hit |-> FALSE,
          seen |-> 0, connects |-> 0, ret |-> FALSE, echoed |-> <<>>,
          headers |-> <<>>, before |-> <<>>, at |-> 0, up |-> FALSE]

IdleDev == host = <<>> /\ devResult = [asked |-> FALSE, ret |-> FALSE]
IdleRun == transients = <<>> /\ now = 0 /\ serverUp = FALSE /\ lastReq = NoReq
IdlePlugin ==
  /\ phase = "idle" /\ pluginOrigin = <<>> /\ file = <<>>
  /\ closeListener = FALSE /\ httpServer = FALSE
  /\ viteConfig = [https |-> FALSE, port |-> NoNum]

devVars == <<host, devResult>>
runVars == <<transients, now, serverUp, lastReq>>
plugVars == <<phase, pluginOrigin, file, closeListener, httpServer, viteConfig>>

(* ---------------------------- generator -------------------------------- *)
InitGen ==
  /\ origin \in ValidOrigins \cup MalformedOrigins
  /\ \E dp \in OptSeqs(PatternNames, MaxPatterns),
        ev \in OptSeqs(EventNames, MaxEvents),
        c \in CspChoices,
        ttl \in {NoNum, Some(10)} :
       options = [IdleOptions EXCEPT !.devPatterns = dp, !.cssReloadEvents = ev,
                                     !.csp = c, !.cacheTtl = ttl]
  /\ out = NotBuilt
  /\ IdleDev /\ IdleRun /\ IdlePlugin

Build ==
  /\ ~out.built
  /\ out' = [built |-> TRUE, threw |-> buildPhp(origin, options).threw,
             php |-> buildPhp(origin, options).php]
  /\ UNCHANGED <<origin, options, devVars, runVars, plugVars>>

NextGen == Build

SpecGen == InitGen /\ [][NextGen]_vars

Generated == out.built /\ ~out.threw

(* ---------------------------- generator claims ------------------------- *)
FunctionNames ==
  {"vite_hmr_is_dev", "vite_hmr_is_running", "vite_hmr_inject", "vite_hmr_csp"}

FnDecl(fn) ==
  CASE fn = "vite_hmr_is_dev" -> "\tfunction vite_hmr_is_dev(): bool {"
    [] fn = "vite_hmr_is_running" -> "\tfunction vite_hmr_is_running(): bool {"
    [] fn = "vite_hmr_inject" -> "\tfunction vite_hmr_inject(): void {"
    [] fn = "vite_hmr_csp" -> "\tfunction vite_hmr_csp(): void {"

GuardText(fn) == <<"if ( ! function_exists( '", fn, "' ) ) {">>

Declared(php, fn) == \E i \in 1..Len(php) : php[i] = FnDecl(fn)

\* The declaration of fn is directly preceded by the line of its guard.
Wrapped(php, fn) ==
  \A i \in 1..Len(php) :
    php[i] = FnDecl(fn) =>
      /\ i > 4
      /\ SubSeq(php, i - 4, i - 1) = GuardText(fn) \o <<"\n">>

\* C1 as stated: for every configuration the output holds the existence
\* guard of each of the four functions.
C1_AllFourGuarded ==
  Generated => \A fn \in FunctionNames : Contains(out.php, GuardText(fn))

\* C1 amended: vite_hmr_is_dev, vite_hmr_is_running and vite_hmr_inject are
\* declared and guarded for every configuration; vite_hmr_csp is declared and
\* guarded exactly when csp is not false; no declaration lacks its guard.
C1_EmittedGuarded ==
  Generated =>
    /\ \A fn \in FunctionNames \ {"vite_hmr_csp"} :
         Declared(out.php, fn) /\ Contains(out.php, GuardText(fn))
    /\ Declared(out.php, "vite_hmr_csp") <=> options.csp.kind # "false"
    /\ Contains(out.php, GuardText("vite_hmr_csp")) <=> options.csp.kind # "false"
    /\ \A fn \in FunctionNames : Wrapped(out.php, fn)

C1_Witness ==
  /\ Generated
  /\ options.csp.kind = "false"
  /\ Contains(out.php, GuardText("vite_hmr_inject"))

CspTokens ==
  { "vite_hmr_csp", FnDecl("vite_hmr_csp"),
    "add_action( 'send_headers', 'vite_hmr_csp', 1 );", "\t\theader( \"" }

HeaderText(policy) == <<"\t\theader( \"">> \o policy \o <<"\" );">>

\* C2: csp false emits no policy function, registration or header text; csp
\* true or absent emits the default policy; a csp string is emitted verbatim
\* in the header statement and the default policy does not appear.
C2_CspSelectsOutput ==
  Generated =>
    /\ options.csp.kind = "false" =>
         /\ \A i \in 1..Len(out.php) : out.php[i] \notin CspTokens
         /\ ~Contains(out.php, DEFAULT_POLICY)
         /\ \A t \in CustomPolicies : ~Contains(out.php, t)
    /\ options.csp.kind \in {"true", "absent"} =>
         /\ Cardinality(Occurrences(out.php, <<"\t\theader( \"">>)) = 1
         /\ Contains(out.php, HeaderText(DEFAULT_POLICY))
         /\ Contains(out.php, <<"add_action( 'send_headers', 'vite_hmr_csp', 1 );">>)
    /\ options.csp.kind = "string" =>
         /\ Cardinality(Occurrences(out.php, <<"\t\theader( \"">>)) = 1
         /\ Contains(out.php, HeaderText(options.csp.text))
         /\ ~Contains(out.php, DEFAULT_POLICY)
         /\ Contains(out.php, <<"add_action( 'send_headers', 'vite_hmr_csp', 1 );">>)

C2_Witness ==
  /\ Generated
  /\ options.csp.kind = "string"
  /\ Contains(out.php, HeaderText(options.csp.text))

RECURSIVE Ascending(_)
Ascending(S) ==
  IF S = {} THEN <<>>
  ELSE LET m == CHOOSE x \in S : \A y \in S : x <= y
       IN <<m>> \o Ascending(S \ {m})

\* The event names of the hot.on listeners of the output, in output order.
Listeners(php) ==
  LET at == Ascending(Occurrences(php, <<"hot.on(\"">>))
  IN [k \in 1..Len(at) |-> <<php[at[k] + 1]>>]

HotTokens ==
  { "import { createHotContext } from \"",
    "const hot = createHotContext(\"/wp-hmr\");", "hot.on(\"" }

EventsOf(opts) ==
  IF opts.cssReloadEvents.set THEN opts.cssReloadEvents.v ELSE <<>>

\* C3: without events the output has no hot-context block; with events it has
\* one createHotContext block whose hot.on listeners are the input event
\* names, one per entry, in input order.
C3_Listeners ==
  Generated =>
    /\ EventsOf(options) = <<>> =>
         \A i \in 1..Len(out.php) : out.php[i] \notin HotTokens
    /\ EventsOf(options) # <<>> =>
         /\ Cardinality(Occurrences(out.php,
              <<"import { createHotContext } from \"">>)) = 1
         /\ Cardinality(Occurrences(out.php,
              <<"const hot = createHotContext(\"/wp-hmr\");">>)) = 1
         /\ Listeners(out.php) = EventsOf(options)
         /\ \A i \in Occurrences(out.php, <<"hot.on(\"">>) :
              out.php[i + 2] = "\", () => {"

C3_Witness ==
  /\ Generated
  /\ Len(EventsOf(options)) = 2
  /\ EventsOf(options)[1] # EventsOf(options)[2]
  /\ Listeners(out.php) = EventsOf(options)

ExpectedPort(scheme, p) ==
  IF p # NoPort THEN p ELSE IF scheme = "https" THEN 443 ELSE 80

\* C4: the host and port of the fsockopen call, and the port of the cache
\* key, are the hostname and port of the origin; an origin without a port
\* gives 443 for https and 80 for any other scheme.
C4_ProbeLiterals ==
  Generated =>
    \A sc \in GenSchemes, h \in GenHosts, p \in GenPorts :
      origin = MkOrigin(sc, h, p) =>
        /\ Contains(out.php,
             <<"\t\t$conn   = @fsockopen( '", h, "', ">>
               \o NumText(ExpectedPort(sc, p)) \o <<", $errno, $errstr, 1 );">>)
        /\ Contains(out.php,
             <<"\t\t$key    = 'vite_hmr_">>
               \o NumText(ExpectedPort(sc, p)) \o <<"';">>)

\* The scenarios of the test-suite.
TestScenarios ==
  Generated =>
    /\ Contains(out.php, <<" * Plugin Name: Vite HMR">>)
    /\ Contains(out.php, origin \o <<"/@vite/client\"></script>">>)
    /\ Contains(out.php, <<"'", "local", "'", ", ", "'", "test", "'", ", ", "'", "dev", "'">>)
    /\ origin = <<"https", "://", "mysite.local", ":", "3", "0", "0", "0">> =>
         Contains(out.php, <<"\t\t$conn   = @fsockopen( '", "mysite.local", "', ", "3", "0", "0", "0">>)
    /\ options.cacheTtl = Some(10) =>
         Contains(out.php, <<"\t\tset_transient( $key, (int) $result, ", "1", "0", " );">>)
    /\ ~options.cacheTtl.set =>
         Contains(out.php, <<"\t\tset_transient( $key, (int) $result, ", "5", " );">>)

(* ---------------------------- dev detector ----------------------------- *)
(* A request host is a token sequence over HostTokens.  The tokens of      *)
(* SingleChars stand for one character each, the others for a run of       *)
(* several characters.                                                     *)
HostTokens == {"localhost", "127.0.0.1", "local", "LOCAL", "dev", ".", "x", "a", "b"}
SingleChars == {".", "x", "a", "b"}

Lower(tok) == IF tok = "LOCAL" THEN "local" ELSE tok

\* One element of the pattern of preg_match against one piece of the subject,
\* under the i flag: the tld is spliced into the pattern as it is, so a dot
\* in it is the metacharacter that matches any one character.
PregAtom(p, c) == IF p = "." THEN c \in SingleChars ELSE Lower(p) = Lower(c)

\* preg_match( '/\.' . $tld . '$/i', $host )
preg_match(tld, h) ==
  /\ Len(h) >= Len(tld) + 1
  /\ h[Len(h) - Len(tld)] = "."
  /\ \A i \in 1..Len(tld) : PregAtom(tld[i], h[Len(h) - Len(tld) + i])

vite_hmr_is_dev(h, allTlds) ==
  IF h = <<"localhost">> \/ h = <<"127.0.0.1">> THEN TRUE
  ELSE \E i \in 1..Len(allTlds) : preg_match(allTlds[i], h)

DevPatternNames == { <<"a">>, <<"a", ".", "b">> }

InitDev ==
  /\ origin = MkOrigin("http", "localhost", 5173)
  /\ \E dp \in OptSeqs(DevPatternNames, MaxPatterns) :
       options = [IdleOptions EXCEPT !.devPatterns = dp]
  /\ out = NotBuilt
  /\ host = <<>> /\ devResult = [asked |-> FALSE, ret |-> FALSE]
  /\ IdleRun /\ IdlePlugin

\* A request reaches the detector with its Host header.  The detector keeps
\* no state between requests, so a behaviour holds one request.
Detect ==
  \E h \in SeqsUpTo(HostTokens, MaxHostLen) :
    /\ ~devResult.asked
    /\ host' = h
    /\ devResult' = [asked |-> TRUE, ret |-> vite_hmr_is_dev(h, AllTlds(options))]
    /\ UNCHANGED <<origin, options, out, runVars, plugVars>>

NextDev == Detect

SpecDev == InitDev /\ [][NextDev]_vars

\* h ends, ignoring case, with a dot followed by the text of pattern p.
EndsWithDot(h, p) ==
  /\ Len(h) >= Len(p) + 1
  /\ h[Len(h) - Len(p)] = "."
  /\ \A i \in 1..Len(p) : Lower(h[Len(h) - Len(p) + i]) = Lower(p[i])

SuppliedPatterns(opts) == IF opts.devPatterns.set THEN opts.devPatterns.v ELSE <<>>

MergedPatterns(opts) ==
  << <<"local">>, <<"test">>, <<"dev">> >> \o SuppliedPatterns(opts)

\* C5: the detector answers true exactly for the hosts localhost and
\* 127.0.0.1 and for the hosts that end, ignoring case, with a dot followed
\* by a pattern of the merged list (base list, then the supplied patterns).
C5_DetectorExact ==
  devResult.asked =>
    (devResult.ret <=>
       \/ host = <<"localhost">>
       \/ host = <<"127.0.0.1">>
       \/ \E i \in 1..Len(MergedPatterns(options)) :
            EndsWithDot(host, MergedPatterns(options)[i]))

(* ---------------------------- generated script at run time ------------- *)
(* transients is the transient store of the host runtime: per key either   *)
(* no entry or a value with the time up to which it is served.             *)
RunOrigins == { MkOrigin("http", "localhost", 5173), MkOrigin("https", "mysite.local", NoPort) }
RunHosts ==
  { <<"localhost">>, <<"x", ".", "local">>, <<"x", ".", "ddev">>,
    <<"example", ".", "com">>, <<"localhost", ":", "8080">> }

Miss == 0 - 1
NoEntry == [present |-> FALSE, value |-> 0, expires |-> 0]

KeyOf(org) == <<"vite_hmr_">> \o ResolvedPort(URL(org))
RunKeys == { KeyOf(o) : o \in RunOrigins }

\* get_transient( $key ): false (Miss) without an entry or after its expiry.
get_transient(tr, key, t) ==
  IF tr[key].present /\ t <= tr[key].expires THEN tr[key].value ELSE Miss

\* set_transient( $key, $value, $ttl )
set_transient(tr, key, value, ttl, t) ==
  [tr EXCEPT ![key] = [present |-> TRUE, value |-> value, expires |-> t + ttl]]

\* vite_hmr_is_running with the truthiness test if ( $cached ) in place of
\* $cached !== false.
vite_hmr_is_running_Truthy(org, opts, tr, t, up) ==
  LET key == KeyOf(org)
      cached == get_transient(tr, key, t)
  IN IF cached # Miss /\ cached # 0 THEN
       [ret |-> TRUE, tr |-> tr, connects |-> 0, hit |-> TRUE, seen |-> cached]
     ELSE
       [ret |-> up,
        tr |-> set_transient(tr, key, IF up THEN 1 ELSE 0, ResolvedTtl(opts), t),
        connects |-> 1, hit |-> FALSE, seen |-> Miss]

\* vite_hmr_is_running(): the value of the call, the store it leaves and the
\* connections it attempted.  fsockopen succeeds exactly when the dev server
\* accepts connections (up).
vite_hmr_is_running(org, opts, tr, t, up) ==
  LET key == KeyOf(org)
      cached == get_transient(tr, key, t)
  IN IF cached # Miss THEN
       [ret |-> cached # 0, tr |-> tr, connects |-> 0, hit |-> TRUE,
        seen |-> cached]
     ELSE
       [ret |-> up,
        tr |-> set_transient(tr, key, IF up THEN 1 ELSE 0, ResolvedTtl(opts), t),
        connects |-> 1, hit |-> FALSE, seen |-> Miss]

NotProbed(tr) ==
  [ret |-> FALSE, tr |-> tr, connects |-> 0, hit |-> FALSE, seen |-> Miss]

\* vite_hmr_inject with && in place of || in its early return.
vite_hmr_inject_And(org, opts, h, tr, t, up) ==
  LET dev == vite_hmr_is_dev(h, AllTlds(opts)) IN
  IF dev THEN
    [probed |-> FALSE, probe |-> NotProbed(tr), echoed |-> InjectEchoes(org, opts)]
  ELSE
    LET probe == vite_hmr_is_running(org, opts, tr, t, up) IN
    [probed |-> TRUE, probe |-> probe,
     echoed |-> IF probe.ret THEN InjectEchoes(org, opts) ELSE <<>>]

\* vite_hmr_inject with the operands of || swapped: the probe runs first.
vite_hmr_inject_ProbeFirst(org, opts, h, tr, t, up) ==
  LET dev == vite_hmr_is_dev(h, AllTlds(opts))
      probe == vite_hmr_is_running(org, opts, tr, t, up)
  IN [probed |-> TRUE, probe |-> probe,
      echoed |-> IF probe.ret /\ dev THEN InjectEchoes(org, opts) ELSE <<>>]

\* vite_hmr_inject(): || evaluates the probe only when the detector says dev.
vite_hmr_inject(org, opts, h, tr, t, up) ==
  LET dev == vite_hmr_is_dev(h, AllTlds(opts)) IN
  IF ~dev THEN
    [probed |-> FALSE, probe |-> NotProbed(tr), echoed |-> <<>>]
  ELSE
    LET probe == vite_hmr_is_running(org, opts, tr, t, up) IN
    [probed |-> TRUE, probe |-> probe,
     echoed |-> IF probe.ret THEN InjectEchoes(org, opts) ELSE <<>>]

\* vite_hmr_csp(): the header lines it sends.
vite_hmr_csp(opts, h) ==
  IF ~vite_hmr_is_dev(h, AllTlds(opts)) THEN <<>> ELSE <<Policy(opts)>>

InitRun ==
  /\ origin \in RunOrigins
  /\ \E dp \in {NoSeq, Some(<< <<"ddev">> >>)},
        ev \in {NoSeq, Some(<< <<"evt1">> >>)},
        c \in { k \in CspChoices : k.text # <<"X-Policy: none">> /\ k.kind # "true" },
        ttl \in 1..MaxTtl :
       options = [IdleOptions EXCEPT !.devPatterns = dp, !.cssReloadEvents = ev,
                                     !.csp = c, !.cacheTtl = Some(ttl)]
  /\ out = NotBuilt
  /\ IdleDev /\ IdlePlugin
  /\ transients = [k \in RunKeys |-> NoEntry]
  /\ now = 0
  /\ serverUp \in BOOLEAN
  /\ lastReq = NoReq

ServerStart ==
  /\ ~serverUp
  /\ serverUp' = TRUE
  /\ UNCHANGED <<origin, options, out, devVars, plugVars, transients, now, lastReq>>

ServerStop ==
  /\ serverUp
  /\ serverUp' = FALSE
  /\ UNCHANGED <<origin, options, out, devVars, plugVars, transients, now, lastReq>>

Tick ==
  /\ now < MaxTime
  /\ now' = now + 1
  /\ UNCHANGED <<origin, options, out, devVars, plugVars, transients, serverUp, lastReq>>

\* The wp_head hook of a page render runs vite_hmr_inject.
WpHead ==
  \E h \in RunHosts :
    LET r == vite_hmr_inject(origin, options, h, transients, now, serverUp) IN
    /\ transients' = r.probe.tr
    /\ lastReq' = [hook |-> "wp_head", host |-> h, probed |-> r.probed,
                   hit |-> r.probe.hit, seen |-> r.probe.seen,
                   connects |-> r.probe.connects, ret |-> r.probe.ret,
                   echoed |-> r.echoed, headers |-> <<>>,
                   before |-> transients, at |-> now, up |-> serverUp]
    /\ UNCHANGED <<origin, options, out, devVars, plugVars, now, serverUp>>

\* The send_headers hook of a response runs vite_hmr_csp, which is registered
\* only when csp is not false.
SendHeaders ==
  \E h \in RunHosts :
    /\ options.csp.kind # "false"
    /\ lastReq' = [hook |-> "send_headers", host |-> h, probed |-> FALSE,
                   hit |-> FALSE, seen |-> Miss, connects |-> 0, ret |-> FALSE,
                   echoed |-> <<>>, headers |-> vite_hmr_csp(options, h),
                   before |-> transients, at |-> now, up |-> serverUp]
    /\ UNCHANGED <<origin, options, out, devVars, plugVars, transients, now, serverUp>>

NextRun == ServerStart \/ ServerStop \/ Tick \/ WpHead \/ SendHeaders

SpecRun == InitRun /\ [][NextRun]_vars

(* ---------------------------- run-time claims -------------------------- *)
LiveEntry(req) ==
  /\ req.before[KeyOf(origin)].present
  /\ req.at <= req.before[KeyOf(origin)].expires

\* C6: a probe call that finds an unexpired entry under its key, a negative
\* one included, returns the entry's value and attempts no connection; a call
\* that finds none attempts one connection, stores the outcome under the key
\* with the configured ttl and returns it.
C6_ProbeCache ==
  lastReq.probed =>
    /\ LiveEntry(lastReq) =>
         /\ lastReq.connects = 0
         /\ lastReq.ret = (lastReq.before[KeyOf(origin)].value = 1)
         /\ transients = lastReq.before
    /\ ~LiveEntry(lastReq) =>
         /\ lastReq.connects = 1
         /\ lastReq.ret = lastReq.up
         /\ transients =
              [lastReq.before EXCEPT ![KeyOf(origin)] =
                 [present |-> TRUE, value |-> IF lastReq.up THEN 1 ELSE 0,
                  expires |-> lastReq.at + options.cacheTtl.v]]

\* The dev server came up inside the window of a cached negative result.
C6_Witness ==
  /\ lastReq.probed
  /\ LiveEntry(lastReq)
  /\ lastReq.before[KeyOf(origin)].value = 0
  /\ lastReq.up
  /\ ~lastReq.ret

WouldRun(req) ==
  IF LiveEntry(req) THEN req.before[KeyOf(origin)].value = 1 ELSE req.up

\* C7: a page render echoes nothing unless the detector and the probe both
\* answer true, and when both do its first echo is the script tag of
\* origin/@vite/client, with or without cssReloadEvents.
C7_InjectGate ==
  lastReq.hook = "wp_head" =>
    /\ lastReq.echoed # <<>> =>
         vite_hmr_is_dev(lastReq.host, AllTlds(options)) /\ WouldRun(lastReq)
    /\ (vite_hmr_is_dev(lastReq.host, AllTlds(options)) /\ WouldRun(lastReq)) =>
         /\ lastReq.echoed # <<>>
         /\ lastReq.echoed[1] =
              <<"<script type=\"module\" src=\"">> \o origin
                \o <<"/@vite/client\"></script>">>

C7_Witness ==
  /\ lastReq.hook = "wp_head"
  /\ Len(lastReq.echoed) = 1
  /\ EventsOf(options) = <<>>

\* C10: a request whose host the detector classifies as non-dev does not
\* call the probe: no connection is attempted and the transient store is
\* left as it was.
C10_NonDevFrame ==
  (lastReq.hook # "none" /\ ~vite_hmr_is_dev(lastReq.host, AllTlds(options))) =>
    /\ ~lastReq.probed
    /\ lastReq.connects = 0
    /\ transients = lastReq.before

\* A page render on a non-dev host while the server is up and nothing is
\* cached: a probe would have connected and written the store.
C10_Witness ==
  /\ lastReq.hook = "wp_head"
  /\ ~vite_hmr_is_dev(lastReq.host, AllTlds(options))
  /\ lastReq.up
  /\ ~LiveEntry(lastReq)
  /\ transients = lastReq.before

(* ---------------------------- plugin lifecycle ------------------------- *)
(* file is the content of outputDir by file name.  The filesystem calls    *)
(* (mkdirpSync, writeFileSync, removeSync) are taken to succeed.           *)
FileNames == {"vite-hmr.php", "custom.php"}
Absent == [exists |-> FALSE, content |-> <<>>]
Stale == [exists |-> TRUE, content |-> <<"stale">>]

PluginOrigins == { <<>>, MkOrigin("https", "mysite.local", 3000), <<"not a url">> }

PhpFile(opts) == IF opts.fileName = "absent" THEN "vite-hmr.php" ELSE opts.fileName

InitPlugin ==
  /\ origin = <<>>
  /\ \E o \in PluginOrigins,
        cl \in {"absent", "true", "false"},
        fn \in {"absent", "custom.php"},
        ev \in {NoSeq, Some(<< <<"evt1">> >>)},
        c \in { k \in CspChoices : k.kind \in {"absent", "false"} } :
       options = [IdleOptions EXCEPT !.origin = o, !.cleanup = cl, !.fileName = fn,
                                     !.cssReloadEvents = ev, !.csp = c]
  /\ out = NotBuilt
  /\ IdleDev /\ IdleRun
  /\ phase = "created"
  /\ pluginOrigin = <<>>
  /\ file \in [FileNames -> {Absent, Stale}]
  /\ closeListener = FALSE
  /\ httpServer \in BOOLEAN
  /\ viteConfig \in [https : BOOLEAN, port : {NoNum, Some(3000)}]

configResolved ==
  /\ phase = "created"
  /\ pluginOrigin' =
       IF options.origin # <<>> THEN options.origin
       ELSE MkOrigin(IF viteConfig.https THEN "https" ELSE "http", "localhost",
                     IF viteConfig.port.set THEN viteConfig.port.v ELSE 5173)
  /\ phase' = "resolved"
  /\ UNCHANGED <<origin, options, out, devVars, runVars, file, closeListener,
                 httpServer, viteConfig>>

\* configureServer that writes whatever text it has before it fails.
configureServer_WriteFirst ==
  /\ phase = "resolved"
  /\ file' = [file EXCEPT ![PhpFile(options)] =
                [exists |-> TRUE, content |-> buildPhp(pluginOrigin, options).php]]
  /\ IF buildPhp(pluginOrigin, options).threw THEN
       /\ phase' = "failed"
       /\ UNCHANGED closeListener
     ELSE
       /\ closeListener' = (options.cleanup # "false" /\ httpServer)
       /\ phase' = "serving"
  /\ UNCHANGED <<origin, options, out, devVars, runVars, pluginOrigin,
                 httpServer, viteConfig>>

configureServer ==
  /\ phase = "resolved"
  /\ IF buildPhp(pluginOrigin, options).threw THEN
       /\ phase' = "failed"
       /\ UNCHANGED <<file, closeListener>>
     ELSE
       /\ file' = [file EXCEPT ![PhpFile(options)] =
                     [exists |-> TRUE, content |-> buildPhp(pluginOrigin, options).php]]
       /\ closeListener' = (options.cleanup # "false" /\ httpServer)
       /\ phase' = "serving"
  /\ UNCHANGED <<origin, options, out, devVars, runVars, pluginOrigin,
                 httpServer, viteConfig>>

\* The dev server closes; its http server, when there is one, emits close.
closeServer ==
  /\ phase = "serving"
  /\ phase' = "closed"
  /\ file' = IF closeListener THEN [file EXCEPT ![PhpFile(options)] = Absent]
             ELSE file
  /\ UNCHANGED <<origin, options, out, devVars, runVars, pluginOrigin,
                 closeListener, httpServer, viteConfig>>

NextPlugin == configResolved \/ configureServer \/ closeServer

SpecPlugin == InitPlugin /\ [][NextPlugin]_vars

\* C8: after configureServer the file holds buildPhp(origin, options); once
\* the dev server has closed the file is gone, unless cleanup is false, in
\* which case it is left in place.
C8_Lifecycle ==
  /\ phase = "serving" =>
       file[PhpFile(options)] =
         [exists |-> TRUE, content |-> buildPhp(pluginOrigin, options).php]
  /\ phase = "closed" =>
       IF options.cleanup = "false"
       THEN file[PhpFile(options)] =
              [exists |-> TRUE, content |-> buildPhp(pluginOrigin, options).php]
       ELSE ~file[PhpFile(options)].exists

\* C9: with a malformed origin configureServer fails at the URL construction:
\* nothing is written, no listener is registered and the server never serves.
C9_MalformedAborts ==
  [][(phase = "resolved" /\ ~URL(pluginOrigin).ok) =>
       (phase' = "failed" /\ file' = file /\ closeListener' = closeListener)]_vars

C9_Witness ==
  /\ phase = "failed"
  /\ ~URL(pluginOrigin).ok
  /\ file[PhpFile(options)] = Absent

====
